---- MODULE Spec2Model ----
(***************************************************************************)
(* Model of flair/embeddings/base.py: the Embeddings base class (embed,    *)
(* the abstract accessors and hook, get_names, get_named_embeddings_dict,  *)
(* get_instance_parameters) and the ScalarMix module (constructor and      *)
(* forward).                                                               *)
(*                                                                         *)
(* Three specifications share the variables: Spec drives one Embeddings    *)
(* instance over a pool of data points, SpecMix drives one ScalarMix, and  *)
(* SpecParams applies the static helper get_instance_parameters.           *)
(***************************************************************************)
EXTENDS Integers, Sequences, FiniteSets, TLC

VARIABLES
    name,               \* Embeddings.name
    static_embeddings,  \* Embeddings.static_embeddings
    implemented,        \* the abstract members the concrete variant overrides
    embeddings,         \* data point -> its _embeddings map (name -> vector)
    mixture_size,       \* ScalarMix.mixture_size
    scalar_parameters,  \* ScalarMix.scalar_parameters
    gamma,              \* ScalarMix.gamma
    trainable,          \* requires_grad of the ScalarMix parameters
    tensors,            \* the list a caller hands to ScalarMix.forward
    bindings,           \* the locals() dict handed to get_instance_parameters
    init_parameters,    \* parameter names of class_definition.__init__
    ret                 \* what the last call did and returned

vars == <<name, static_embeddings, implemented, embeddings,
          mixture_size, scalar_parameters, gamma, trainable, tensors,
          bindings, init_parameters, ret>>

embVars == <<name, static_embeddings, implemented, embeddings>>
mixVars == <<mixture_size, scalar_parameters, gamma, trainable, tensors>>
gipVars == <<bindings, init_parameters>>

(***************************************************************************)
(* Bounds.                                                                 *)
(***************************************************************************)
NumPoints == 2      \* data points in the pool
MaxVec == 2         \* distinct vectors a hook may write

Points == 1..NumPoints
Vectors == 1..MaxVec
NoVec == 0          \* the key is absent from the _embeddings map
Names == {"unnamed_embedding", "glove"}
AbstractMembers == {"embedding_length", "embedding_type", "_add_embeddings_internal"}
\* the concrete variants explored: all members overridden, the hook left
\* out, the accessors left out
Variants == {AbstractMembers,
             {"embedding_length", "embedding_type"},
             {"_add_embeddings_internal"}}

\* the sequences of at most n distinct elements of S
RECURSIVE DistinctSeqs(_, _)
DistinctSeqs(S, n) ==
    IF n = 0 THEN {<<>>}
    ELSE LET shorter == DistinctSeqs(S, n - 1)
         IN  shorter \cup
             UNION {{Append(s, x) : x \in S \ {s[i] : i \in 1..Len(s)}} :
                      s \in {t \in shorter : Len(t) = n - 1}}

(***************************************************************************)
(* Python values handed to and returned by embed: one data point (a        *)
(* reference to an object of the pool) or a list of data points, each     *)
(* object at most once in a list.                                          *)
(***************************************************************************)
PyPoint(i) == [kind |-> "dp", id |-> i, items |-> <<>>]
PyList(s) == [kind |-> "list", id |-> 0, items |-> s]
EmbedArgs == {PyPoint(i) : i \in Points} \cup {PyList(s) : s \in DistinctSeqs(Points, NumPoints)}

\* ret before any call.  hook_calls lists the invocations of the hook made
\* by the call, each as the argument it was given; had holds the data
\* points of the batch that carried name on entry; changed tells whether
\* the call altered any _embeddings map; repeat whether the call before it
\* was embed with the same argument.
NoCall == [op |-> "none", arg |-> <<>>, result |-> <<>>, outcome |-> "none",
           hook_calls |-> <<>>, had |-> {}, changed |-> FALSE, repeat |-> FALSE]

(***************************************************************************)
(* Embeddings                                                              *)
(***************************************************************************)
\* data_point._embeddings.keys()
Keys(d) == {n \in Names : embeddings[d][n] # NoVec}

\* embed, lines 43-44: anything that is not a list is wrapped in a list.
\* (NormaliseKeepsFirst is a faulty variant, [data_points[0]] for a list,
\* against which C6 is tested.)
NormaliseKeepsFirst(data_points) ==
    IF data_points.kind # "list"
    THEN <<data_points>>
    ELSE [i \in 1..(IF Len(data_points.items) = 0 THEN 0 ELSE 1) |->
            PyPoint(data_points.items[i])]
Normalise(data_points) ==
    IF data_points.kind # "list"
    THEN <<data_points>>
    ELSE [i \in 1..Len(data_points.items) |-> PyPoint(data_points.items[i])]

\* _everything_embedded: the loop returns False at the first data point
\* whose map lacks self.name, True when it runs to the end
RECURSIVE EverythingEmbeddedFrom(_, _)
EverythingEmbeddedFrom(data_points, i) ==
    IF i > Len(data_points) THEN TRUE
    ELSE IF name \notin Keys(data_points[i].id) THEN FALSE
    ELSE EverythingEmbeddedFrom(data_points, i + 1)

EverythingEmbedded(data_points) == EverythingEmbeddedFrom(data_points, 1)

\* embed, line 46.  (Two faulty variants, against which C1 and C2 are
\* tested: the condition without its second clause, and with the `not` of
\* the second clause dropped.)
NeedsComputeIgnoresStatic(data_points) == ~EverythingEmbedded(data_points)
NeedsComputeStaticFlipped(data_points) ==
    ~EverythingEmbedded(data_points) \/ static_embeddings
NeedsCompute(data_points) ==
    ~EverythingEmbedded(data_points) \/ ~static_embeddings

\* embed, line 47: what the hook is called with.  (HookArgsMissingOnly is a
\* faulty variant, against which C9 is tested: only the data points that
\* lack name.)
HookArgsMissingOnly(data_points) ==
    SelectSeq(data_points, LAMBDA p : name \notin Keys(p.id))
HookArgs(data_points) == data_points

\* _add_embeddings_internal.  The base body is `pass`; a variant that
\* overrides it stores a vector under name for each data point it is given.
AddEmbeddingsInternal(sentences, vec) ==
    IF "_add_embeddings_internal" \in implemented
    THEN [d \in Points |->
            IF \E i \in 1..Len(sentences) : sentences[i].id = d
            THEN [embeddings[d] EXCEPT ![name] = vec]
            ELSE embeddings[d]]
    ELSE embeddings

\* how a call that reached the hook ends: the base body returns None, and
\* so does an override that stores its vectors; nothing is raised, because
\* @abstractmethod has no effect on a class whose metaclass is not ABCMeta
HookOutcome == "returned"

\* embed, lines 46-47: the invocations of the hook
HookCalls(data_points) ==
    IF NeedsCompute(data_points) THEN <<HookArgs(data_points)>> ELSE <<>>

\* the data points of the list that carry name
Had(data_points) ==
    {d \in Points : /\ \E i \in 1..Len(data_points) : data_points[i].id = d
                    /\ name \in Keys(d)}

EmbedWith(data_points, normalised, calls) ==
    /\ IF calls # <<>>
       THEN \E vec \in Vectors :
                embeddings' = AddEmbeddingsInternal(calls[1], vec)
       ELSE UNCHANGED embeddings
    /\ ret' = [op |-> "embed", arg |-> data_points,
               result |-> normalised,
               outcome |-> IF calls # <<>> THEN HookOutcome ELSE "returned",
               hook_calls |-> calls,
               had |-> Had(normalised),
               changed |-> embeddings' # embeddings,
               repeat |-> ret.op = "embed" /\ ret.arg = data_points]
    /\ UNCHANGED <<name, static_embeddings, implemented, mixVars, gipVars>>

EmbedList(data_points, normalised) ==
    EmbedWith(data_points, normalised, HookCalls(normalised))

Embed(data_points) == EmbedList(data_points, Normalise(data_points))

\* embedding_length / embedding_type: the base property raises
\* NotImplementedError; an overriding variant returns its own value
AccessorOutcome(member) ==
    IF member \in implemented THEN "returned" ELSE "NotImplementedError"

Accessor(member) ==
    /\ ret' = [NoCall EXCEPT !.op = member,
                             !.outcome = AccessorOutcome(member),
                             !.result = IF AccessorOutcome(member) = "returned"
                                        THEN <<"value">> ELSE <<>>]
    /\ UNCHANGED <<embVars, mixVars, gipVars>>

EmbeddingLength == Accessor("embedding_length")
EmbeddingType == Accessor("embedding_type")

\* the instance itself, as the value stored by get_named_embeddings_dict
Self == "self"

\* get_names.  (NamesOfDefault is a faulty variant, against which C8 is
\* tested: the default name instead of the current one.)
NamesOfDefault == <<"unnamed_embedding">>
NamesOf == <<name>>

GetNames ==
    /\ ret' = [NoCall EXCEPT !.op = "get_names", !.outcome = "returned",
                             !.result = NamesOf]
    /\ UNCHANGED <<embVars, mixVars, gipVars>>

\* get_named_embeddings_dict: a dict as the sequence of its items
NamedEmbeddingsDict == <<[key |-> name, value |-> Self]>>

GetNamedEmbeddingsDict ==
    /\ ret' = [NoCall EXCEPT !.op = "get_named_embeddings_dict",
                             !.outcome = "returned",
                             !.result = NamedEmbeddingsDict]
    /\ UNCHANGED <<embVars, mixVars, gipVars>>

\* an instance of a concrete variant, with the name and static_embeddings
\* its constructor set, and data points that may already carry a vector
\* under name; those of another embedding are on all of them or on none
InitEmb ==
    /\ name \in Names
    /\ static_embeddings \in BOOLEAN
    /\ implemented \in Variants
    /\ \E other \in {NoVec, 1} :
         embeddings \in {e \in [Points -> [Names -> {NoVec} \cup Vectors]] :
                            \A d \in Points : \A n \in Names \ {name} : e[d][n] = other}

\* no ScalarMix, no get_instance_parameters call in this specification
IdleMix ==
    /\ mixture_size = 0
    /\ scalar_parameters = <<>>
    /\ gamma = 0
    /\ trainable = FALSE
    /\ tensors = <<>>

IdleParams ==
    /\ bindings = <<>>
    /\ init_parameters = <<>>

Init ==
    /\ InitEmb
    /\ IdleMix
    /\ IdleParams
    /\ ret = NoCall

DoEmbed == \E a \in EmbedArgs : Embed(a)

Next ==
    \/ DoEmbed
    \/ EmbeddingLength
    \/ EmbeddingType
    \/ GetNames
    \/ GetNamedEmbeddingsDict

Spec == Init /\ [][Next]_vars

(***************************************************************************)
(* ScalarMix                                                               *)
(*                                                                         *)
(* Arithmetic is exact: a number is a fraction <<numerator, denominator>>  *)
(* in lowest terms.  A scalar parameter holds an integer k that stands for *)
(* the float k * ln 2, so that exp of it is the fraction 2^k; the rounding *)
(* of float32 is not modelled.  A tensor is the sequence of its elements;  *)
(* a one-element tensor broadcasts against any other, as the shape (1,)    *)
(* of the parameters does.                                                 *)
(***************************************************************************)
MaxMixture == 3     \* largest mixture_size constructed
MaxWeight == 1      \* the optimizer moves a scalar parameter within 0..MaxWeight
MaxGamma == 2       \* the optimizer moves gamma within 1..MaxGamma

\* the input tensors explored: shape (2,2), flattened
TensorSamples == {<<1, 1, 1, 1>>, <<2, 2, 2, 2>>, <<3, 3, 3, 3>>, <<0, 1, 2, 5>>}

RECURSIVE SeqsUpTo(_, _)
SeqsUpTo(S, n) ==
    IF n = 0 THEN {<<>>}
    ELSE LET shorter == SeqsUpTo(S, n - 1)
         IN  shorter \cup
             {Append(s, x) : s \in {t \in shorter : Len(t) = n - 1}, x \in S}

RECURSIVE GCD(_, _)
GCD(a, b) == IF b = 0 THEN a ELSE GCD(b, a % b)

Abs(n) == IF n < 0 THEN -n ELSE n
Frac(n, d) == LET g == GCD(Abs(n), d) IN <<n \div g, d \div g>>
FracAdd(x, y) == Frac(x[1] * y[2] + y[1] * x[2], x[2] * y[2])
FracMul(x, y) == Frac(x[1] * y[1], x[2] * y[2])
FracDiv(x, y) == Frac(x[1] * y[2], x[2] * y[1])
FracLess(x, y) == x[1] * y[2] < y[1] * x[2]
Zero == <<0, 1>>
One == <<1, 1>>

RECURSIVE Pow2(_)
Pow2(k) == IF k = 0 THEN 1 ELSE 2 * Pow2(k - 1)

\* exp(k * ln 2)
Exp(k) == IF k >= 0 THEN <<Pow2(k), 1>> ELSE <<1, Pow2(-k)>>

RECURSIVE FracSum(_)
FracSum(xs) == IF xs = <<>> THEN Zero ELSE FracAdd(Head(xs), FracSum(Tail(xs)))

RECURSIVE MaxOf(_)
MaxOf(xs) ==
    IF Len(xs) = 1 THEN xs[1]
    ELSE LET m == MaxOf(Tail(xs)) IN IF xs[1] > m THEN xs[1] ELSE m

\* torch.tensor of a list of numbers
Tensor(values) == [j \in 1..Len(values) |-> <<values[j], 1>>]

\* elementwise x * y and x + y with broadcasting of a one-element operand
TensorMul(x, y) ==
    [j \in 1..(IF Len(x) = 1 THEN Len(y) ELSE Len(x)) |->
        FracMul(x[IF Len(x) = 1 THEN 1 ELSE j], y[IF Len(y) = 1 THEN 1 ELSE j])]
TensorAdd(x, y) ==
    [j \in 1..(IF Len(x) = 1 THEN Len(y) ELSE Len(x)) |->
        FracAdd(x[IF Len(x) = 1 THEN 1 ELSE j], y[IF Len(y) = 1 THEN 1 ELSE j])]

\* __init__, line 105: initial_scalar_parameters
InitialScalarParameters(size) == [i \in 1..size |-> 0]
\* __init__, lines 120-127: gamma
InitialGamma == 1

\* forward, lines 143-146: softmax over the concatenated parameters, taken
\* with the exponents shifted by their maximum, split into one-element
\* tensors.  (SoftmaxUnnormalised is a faulty variant, against which C5 is
\* tested: the exponentials without the division by their sum.)
SoftmaxUnnormalised(parameters) ==
    [i \in 1..Len(parameters) |-> <<Exp(parameters[i] - MaxOf(parameters))>>]
DivideAll(shifted, total) ==
    [i \in 1..Len(shifted) |-> <<FracDiv(shifted[i], total)>>]
ShiftedExp(parameters, largest) ==
    [i \in 1..Len(parameters) |-> Exp(parameters[i] - largest)]
SoftmaxOf(shifted) == DivideAll(shifted, FracSum(shifted))
Softmax(parameters) == SoftmaxOf(ShiftedExp(parameters, MaxOf(parameters)))

\* forward, line 149: zip stops at the end of the shorter sequence.
\* (ZipFromEnd is a faulty variant, against which C4 is tested: the pairs
\* are aligned at the end of the sequences.)
ZipFromEnd(weights, inputs) ==
    LET n == IF Len(weights) < Len(inputs) THEN Len(weights) ELSE Len(inputs)
    IN  [i \in 1..n |-> [weight |-> weights[Len(weights) - n + i],
                         tensor |-> inputs[Len(inputs) - n + i]]]
Zip(weights, inputs) ==
    LET n == IF Len(weights) < Len(inputs) THEN Len(weights) ELSE Len(inputs)
    IN  [i \in 1..n |-> [weight |-> weights[i], tensor |-> inputs[i]]]

\* forward, line 151: sum(pieces) starts from the integer 0.
\* (SumPiecesAveraged is a faulty variant, against which C10 is tested: the
\* sum divided by the number of pieces.)
RECURSIVE SumFrom(_, _)
SumFrom(acc, pieces) ==
    IF pieces = <<>> THEN acc
    ELSE SumFrom(TensorAdd(acc, Head(pieces)), Tail(pieces))

SumPiecesAveraged(pieces) ==
    IF pieces = <<>> THEN <<Zero>>
    ELSE TensorMul(<<Frac(1, Len(pieces))>>, SumFrom(<<Zero>>, pieces))
SumPieces(pieces) == SumFrom(<<Zero>>, pieces)

\* forward, line 136: the tensor count is compared with mixture_size
Mismatch(inputs) == Len(inputs) # mixture_size

\* forward, lines 148-151: the pieces of the zipped pairs, summed and scaled
Pieces(pairs) ==
    [i \in 1..Len(pairs) |-> TensorMul(pairs[i].weight, pairs[i].tensor)]
Mixture(pairs) == TensorMul(<<<<gamma, 1>>>>, SumPieces(Pieces(pairs)))

\* what forward hands back, with the weights it applied
ForwardReturn(pairs) ==
    [op |-> "forward",
     outcome |-> "returned",
     logged |-> Mismatch(tensors),
     weights |-> [i \in 1..Len(pairs) |-> pairs[i].weight[1]],
     result |-> Mixture(pairs)]

Forward ==
    /\ mixture_size >= 1
    /\ ret' = ForwardReturn(Zip(Softmax(scalar_parameters),
                                [i \in 1..Len(tensors) |-> Tensor(tensors[i])]))
    /\ UNCHANGED <<embVars, mixVars, gipVars>>

\* The parameters are torch Parameters with requires_grad = trainable: an
\* optimizer outside this module changes them between calls of forward,
\* forward itself never does.
OptimizerStep ==
    /\ trainable
    /\ \/ \E i \in 1..mixture_size : \E w \in 0..MaxWeight :
             /\ w # scalar_parameters[i]
             /\ scalar_parameters' = [scalar_parameters EXCEPT ![i] = w]
             /\ UNCHANGED gamma
       \/ \E g \in 1..MaxGamma :
             /\ g # gamma
             /\ gamma' = g
             /\ UNCHANGED scalar_parameters
    /\ ret' = [op |-> "optimizer_step", outcome |-> "returned", logged |-> FALSE,
               weights |-> <<>>, result |-> <<>>]
    /\ UNCHANGED <<embVars, gipVars, mixture_size, trainable, tensors>>

IdleEmb ==
    /\ name = "unnamed_embedding"
    /\ static_embeddings = FALSE
    /\ implemented = {}
    /\ embeddings = [d \in Points |-> [n \in Names |-> NoVec]]

\* ScalarMix(mixture_size, trainable), and the list a caller will pass: up
\* to MaxMixture tensors, so fewer than, exactly and more than mixture_size
InitMix ==
    /\ IdleEmb
    /\ IdleParams
    /\ mixture_size \in 1..MaxMixture
    /\ trainable \in BOOLEAN
    /\ scalar_parameters = InitialScalarParameters(mixture_size)
    /\ gamma = InitialGamma
    /\ tensors \in SeqsUpTo(TensorSamples, MaxMixture)
    /\ ret = [op |-> "none", outcome |-> "none", logged |-> FALSE,
              weights |-> <<>>, result |-> <<>>]

NextMix ==
    \/ Forward
    \/ OptimizerStep

SpecMix == InitMix /\ [][NextMix]_vars

(***************************************************************************)
(* Embeddings.get_instance_parameters                                      *)
(*                                                                         *)
(* A dict is the sequence of its items in insertion order.  The caller is  *)
(* a constructor  def __init__(first, positional..., *var, keyword_only...)*)
(* that refers to __class__ and passes its locals().  init_parameters is   *)
(* list(inspect.signature(class_definition.__init__).parameters): the      *)
(* names in the order of the declaration.  bindings is locals(): CPython   *)
(* lists the arguments first, the positional ones, then the keyword-only   *)
(* ones, then *var; then the other local variables; then __class__.        *)
(***************************************************************************)
FirstNames == {"self", "this"}
ParameterNames == {"a", "b", "c"}
OtherLocals == {<<>>, <<"tmp">>}

SeqRange(seq) == {seq[i] : i \in 1..Len(seq)}

\* the constructors explored: their positional, *var and keyword-only names
Constructors ==
    {c \in [first : FirstNames,
            positional : DistinctSeqs(ParameterNames, Cardinality(ParameterNames)),
            var : DistinctSeqs(ParameterNames, 1),
            keyword_only : DistinctSeqs(ParameterNames, Cardinality(ParameterNames)),
            others : OtherLocals] :
        /\ SeqRange(c.positional) \cap SeqRange(c.var) = {}
        /\ SeqRange(c.positional) \cap SeqRange(c.keyword_only) = {}
        /\ SeqRange(c.var) \cap SeqRange(c.keyword_only) = {}}

SignatureOf(c) == <<c.first>> \o c.positional \o c.var \o c.keyword_only
LocalsOf(c) ==
    LET keys == <<c.first>> \o c.positional \o c.keyword_only \o c.var
                  \o c.others \o <<"__class__">>
    IN  [i \in 1..Len(keys) |-> [key |-> keys[i], value |-> i]]

DictKeys(dict) == {dict[i].key : i \in 1..Len(dict)}

\* lines 74-76: the parameter names as a set, self removed, __class__
\* added.  (InstanceParameterNamesKeepSelf is a faulty variant, against
\* which C7 is tested: self is not removed.)
InstanceParameterNamesKeepSelf(parameters) ==
    {parameters[i] : i \in 1..Len(parameters)} \cup {"__class__"}
InstanceParameterNames(parameters) ==
    ({parameters[i] : i \in 1..Len(parameters)} \ {"self"}) \cup {"__class__"}

\* lines 77-81: the items of locals whose key is one of the names, in the
\* order of locals
InstanceParameters(locals, names) ==
    SelectSeq(locals, LAMBDA item : item.key \in names)

GetInstanceParameters ==
    /\ bindings # <<>>
    /\ IF "self" \in {init_parameters[i] : i \in 1..Len(init_parameters)}
       THEN ret' = [op |-> "get_instance_parameters", outcome |-> "returned",
                    result |-> InstanceParameters(
                                   bindings, InstanceParameterNames(init_parameters))]
       ELSE \* set.remove("self") on a signature that does not name self
            ret' = [op |-> "get_instance_parameters", outcome |-> "KeyError",
                    result |-> <<>>]
    /\ UNCHANGED <<embVars, mixVars, gipVars>>

InitParams ==
    /\ IdleEmb
    /\ IdleMix
    /\ \E c \in Constructors :
         /\ bindings = LocalsOf(c)
         /\ init_parameters = SignatureOf(c)
    /\ ret = [op |-> "none", outcome |-> "none", result |-> <<>>]

NextParams ==
    \/ GetInstanceParameters

SpecParams == InitParams /\ [][NextParams]_vars

(***************************************************************************)
(* Properties of Embeddings, checked under Spec.                           *)
(***************************************************************************)
\* the number of hook invocations made by the last call
Hooked == Len(ret.hook_calls)
\* the ids of the batch the last embed call worked on
BatchIds == {ret.result[i].id : i \in 1..Len(ret.result)}

\* C1: with static_embeddings true and every data point of the batch already
\* carrying name, embed does not invoke the hook (the invocation count is
\* what it was on entry) and leaves every vector map as it was.
C1_StaticAllEmbeddedIsNoOp ==
    (ret.op = "embed" /\ static_embeddings /\ BatchIds \subseteq ret.had)
        => (Hooked = 0 /\ ~ret.changed)

\* the second of two embed([d]) in a row on a data point that carries
\* name, under a static embedding
C1_Witness ==
    /\ ret.op = "embed" /\ static_embeddings /\ ret.repeat
    /\ ret.arg.kind = "list" /\ Len(ret.arg.items) = 1
    /\ BatchIds \subseteq ret.had
    /\ Hooked = 0 /\ ~ret.changed

\* C2: with static_embeddings false every embed([d]) invokes the hook at
\* least once, whether or not d carried name and whatever calls came before.
C2_NonStaticAlwaysHooks ==
    (ret.op = "embed" /\ ~static_embeddings) => Hooked >= 1

\* a repeated embed([d]) on a data point that carries name
C2_Witness ==
    /\ ret.op = "embed" /\ ~static_embeddings /\ ret.repeat
    /\ ret.arg.kind = "list" /\ Len(ret.arg.items) = 1
    /\ BatchIds \subseteq ret.had
    /\ Hooked = 1

\* C3: when embed reaches the hook of a variant that has not implemented
\* it, the call ends in NotImplementedError instead of returning, as the
\* unimplemented accessors do.
C3_UnimplementedHookRaises ==
    /\ (ret.op = "embed" /\ Hooked >= 1
            /\ "_add_embeddings_internal" \notin implemented)
          => ret.outcome = "NotImplementedError"
    /\ (ret.op \in {"embedding_length", "embedding_type"}
            /\ ret.op \notin implemented)
          => ret.outcome = "NotImplementedError"

\* C6: embed returns a list holding exactly the data points it was given,
\* in order: one data point comes back as a one-element list, a list of n
\* data points as a list of those n.
C6_ReturnsTheGivenPoints ==
    ret.op = "embed" =>
        /\ ret.outcome = "returned"
        /\ Len(ret.result) = (IF ret.arg.kind = "dp" THEN 1 ELSE Len(ret.arg.items))
        /\ \A i \in 1..Len(ret.result) :
              /\ ret.result[i].kind = "dp"
              /\ ret.result[i].id =
                     (IF ret.arg.kind = "dp" THEN ret.arg.id ELSE ret.arg.items[i])

C6_Witness ==
    /\ ret.op = "embed" /\ ret.arg.kind = "list"
    /\ Len(ret.arg.items) = 2 /\ ret.arg.items[1] # ret.arg.items[2]
    /\ Len(ret.result) = 2 /\ Hooked = 1

\* C8: get_names returns exactly one element, the current name, and
\* get_named_embeddings_dict a single entry keyed by that name whose value
\* is the instance itself.
C8_NamesAreTheName ==
    /\ ret.op = "get_names" =>
          (Len(ret.result) = 1 /\ ret.result[1] = name)
    /\ ret.op = "get_named_embeddings_dict" =>
          (/\ Len(ret.result) = 1
           /\ ret.result[1].key = name
           /\ ret.result[1].value = Self)

C8_Witness ==
    /\ ret.op = "get_named_embeddings_dict"
    /\ name # "unnamed_embedding"

\* C9: embed invokes the hook exactly once when some data point of the
\* batch lacks name or the embedding is not static, and not at all
\* otherwise; when invoked the hook receives the whole batch, the data
\* points that already carry name included.
C9_HookOnceWithWholeBatch ==
    ret.op = "embed" =>
        IF (BatchIds \ ret.had # {}) \/ ~static_embeddings
        THEN Hooked = 1 /\ ret.hook_calls[1] = ret.result
        ELSE Hooked = 0

\* a static embedding, a batch in which one data point lacked name and
\* another carried it: the hook got both
C9_Witness ==
    /\ ret.op = "embed" /\ static_embeddings
    /\ BatchIds \ ret.had # {} /\ ret.had # {}
    /\ Hooked = 1
    /\ \E i \in 1..Len(ret.hook_calls[1]) : ret.hook_calls[1][i].id \in ret.had

(***************************************************************************)
(* Properties of ScalarMix, checked under SpecMix.                         *)
(***************************************************************************)
\* the number of weight/tensor pairs a call on the current list can form
Shorter == IF Len(tensors) < mixture_size THEN Len(tensors) ELSE mixture_size

\* sum over i in 1..n of 2^parameters[i] * tensors[i][j]
RECURSIVE WeightedSum(_, _)
WeightedSum(n, j) ==
    IF n = 0 THEN 0
    ELSE Pow2(scalar_parameters[n]) * tensors[n][j] + WeightedSum(n - 1, j)

\* sum over i in 1..n of 2^parameters[i]
RECURSIVE WeightTotal(_)
WeightTotal(n) ==
    IF n = 0 THEN 0 ELSE Pow2(scalar_parameters[n]) + WeightTotal(n - 1)

\* sum over i in 1..n of tensors[i][j]
RECURSIVE PlainSum(_, _)
PlainSum(n, j) == IF n = 0 THEN 0 ELSE tensors[n][j] + PlainSum(n - 1, j)

\* C4: a tensor count other than mixture_size does not stop forward: the
\* mismatch is logged and the result is gamma times the sum of the first
\* min(len(tensors), mixture_size) tensors, each scaled by the softmax
\* weight of the same position; surplus weights or tensors play no part.
C4_MismatchTruncates ==
    (ret.op = "forward" /\ Len(tensors) # mixture_size) =>
        /\ ret.outcome = "returned"
        /\ ret.logged
        /\ Len(ret.weights) = Shorter
        /\ IF Shorter = 0
           THEN \A j \in 1..Len(ret.result) : ret.result[j] = Zero
           ELSE /\ Len(ret.result) = Len(tensors[1])
                /\ \A j \in 1..Len(ret.result) :
                      ret.result[j] = Frac(gamma * WeightedSum(Shorter, j),
                                           WeightTotal(mixture_size))

\* mixture_size 3, two tensors, and weights that differ from each other
C4_Witness ==
    /\ ret.op = "forward" /\ ret.logged
    /\ mixture_size = 3 /\ Len(tensors) = 2 /\ tensors[1] # tensors[2]
    /\ scalar_parameters[1] # scalar_parameters[3]
    /\ Len(ret.weights) = 2

\* C5: with all mixture_size weights equal and gamma = 1, forward on
\* exactly mixture_size tensors returns their elementwise arithmetic mean.
C5_EqualWeightsGiveMean ==
    (/\ ret.op = "forward"
     /\ Len(tensors) = mixture_size
     /\ gamma = 1
     /\ \A i \in 1..mixture_size : scalar_parameters[i] = scalar_parameters[1]) =>
        /\ ~ret.logged
        /\ Len(ret.result) = Len(tensors[1])
        /\ \A j \in 1..Len(ret.result) :
              ret.result[j] = Frac(PlainSum(mixture_size, j), mixture_size)

\* a fresh ScalarMix(3) on tensors filled with 1, 2 and 3: every entry 2
C5_Witness ==
    /\ ret.op = "forward" /\ mixture_size = 3
    /\ scalar_parameters = <<0, 0, 0>> /\ gamma = 1
    /\ tensors = <<<<1, 1, 1, 1>>, <<2, 2, 2, 2>>, <<3, 3, 3, 3>>>>
    /\ ret.result = <<<<2, 1>>, <<2, 1>>, <<2, 1>>, <<2, 1>>>>

\* C10: the softmax runs over all mixture_size weights whatever the tensor
\* count, so the weights applied sum to 1 exactly when at least
\* mixture_size tensors are passed and to less than 1 when fewer are; a
\* fresh ScalarMix(3) on t1, t2 returns (t1 + t2) / 3, and no tensors at
\* all give gamma * 0.
C10_AppliedWeightsNotRenormalised ==
    ret.op = "forward" =>
        /\ (FracSum(ret.weights) = One) <=> (Len(tensors) >= mixture_size)
        /\ Len(tensors) < mixture_size => FracLess(FracSum(ret.weights), One)
        /\ (/\ mixture_size = 3 /\ Len(tensors) = 2 /\ gamma = 1
            /\ scalar_parameters = <<0, 0, 0>>) =>
              \A j \in 1..Len(tensors[1]) :
                  ret.result[j] = Frac(tensors[1][j] + tensors[2][j], 3)
        /\ Len(tensors) = 0 => ret.result = <<Zero>>

C10_Witness ==
    /\ ret.op = "forward" /\ mixture_size = 3 /\ gamma = 1
    /\ scalar_parameters = <<0, 0, 0>>
    /\ tensors = <<<<1, 1, 1, 1>>, <<2, 2, 2, 2>>>>
    /\ ret.result = <<<<1, 1>>, <<1, 1>>, <<1, 1>>, <<1, 1>>>>
    /\ FracSum(ret.weights) = <<2, 3>>

(***************************************************************************)
(* Properties of get_instance_parameters, checked under SpecParams.        *)
(***************************************************************************)
\* the declared parameters without self, in the order of the signature
Declared == SelectSeq(init_parameters, LAMBDA n : n # "self")
DeclaredNames == {Declared[i] : i \in 1..Len(Declared)}
ResultKeys == [i \in 1..Len(ret.result) |-> ret.result[i].key]
\* the position of a key in bindings
PositionOf(k) == CHOOSE i \in 1..Len(bindings) : bindings[i].key = k

\* C7 as stated: the result holds the bindings of the declared parameters
\* other than self and __class__ and nothing else, and its parameters come
\* in the order of the signature.
C7_OrderOfSignature ==
    (ret.op = "get_instance_parameters" /\ ret.outcome = "returned") =>
        /\ DictKeys(ret.result) = DeclaredNames \cup {"__class__"}
        /\ \A i \in 1..Len(ret.result) :
              ret.result[i] = bindings[PositionOf(ret.result[i].key)]
        /\ SelectSeq(ResultKeys, LAMBDA k : k # "__class__") = Declared

\* C7 amended: the result holds exactly the bindings whose key is a
\* declared parameter other than self or is __class__, each with the value
\* it has in the locals, and in the order of the locals.
C7_RestrictionInLocalsOrder ==
    (ret.op = "get_instance_parameters" /\ ret.outcome = "returned") =>
        /\ DictKeys(ret.result) =
              DictKeys(bindings) \cap (DeclaredNames \cup {"__class__"})
        /\ "self" \notin DictKeys(ret.result)
        /\ \A i \in 1..Len(ret.result) :
              ret.result[i] = bindings[PositionOf(ret.result[i].key)]
        /\ \A i, j \in 1..Len(ret.result) :
              i < j => PositionOf(ret.result[i].key) < PositionOf(ret.result[j].key)

\* locals that bind self, both parameters and another local, the
\* parameters in an order other than the signature's
C7_Witness ==
    /\ ret.op = "get_instance_parameters" /\ ret.outcome = "returned"
    /\ "tmp" \in DictKeys(bindings)
    /\ init_parameters = <<"self", "a", "b", "c">>
    /\ PositionOf("c") < PositionOf("b")
    /\ Len(ret.result) = 4
====
